---- MODULE Spec2Model ----
(***************************************************************************)
(* A state-machine model of the recursive length-prefix decoder of         *)
(* src/src/lib.rs: decode_whole_blob and decode_blob_portion_at_position.  *)
(* The recursion is unfolded into an explicit stack of list frames; one    *)
(* action models one match arm of decode_blob_portion_at_position, one the *)
(* `while *position < border_position` test, one the tail of               *)
(* decode_whole_blob, and one the caller that decodes back-to-back.        *)
(*                                                                         *)
(* usize is the 64-bit word of the targets the tests run on.  Every value  *)
(* of 2^24 or more is represented by Huge, which is larger than every      *)
(* source of the model; a length is kept as its eight big-endian bytes     *)
(* until it is added to the cursor, so that the wrap of                    *)
(* `*position + list_length` is computed exactly.                          *)
(***************************************************************************)
EXTENDS Integers, Sequences, FiniteSets, TLC

VARIABLES
    data,       \* the byte source handed to the decoder (the whole extent)
    origin,     \* ghost: how the source was built (raw bytes, an encoding, ...)
    start,      \* cursor at which the running (or last) outermost call began
    position,   \* the shared cursor, *position
    stack,      \* list frames of the recursion, innermost last
    pc,         \* "entry" | "loop" | "returned" | "whole"
    res,        \* result of the last outermost decode_blob_portion_at_position
    whole,      \* result of decode_whole_blob
    calls,      \* number of outermost calls made on this source
    last,       \* ghost: the most recent value a (sub)call returned, with its extent
    flags       \* ghost: what happened during the running outermost call

vars == <<data, origin, start, position, stack, pc, res, whole, calls, last, flags>>

----------------------------------------------------------------------------
(* Program constants, lib.rs:32-35 *)
BORDER_A == 128
BORDER_B == 184
BORDER_C == 192
BORDER_D == 248

(* Bounds of the model *)
MaxLen == 3        \* longest raw source enumerated byte by byte
MaxKids == 2       \* most children of a generated list
MaxVals == 3       \* most values concatenated for back-to-back decoding

Huge == 2^24

----------------------------------------------------------------------------
(* ParsedData, lib.rs:19-23 *)
Byte(a) == [t |-> "Byte", b |-> a]
String(s) == [t |-> "String", s |-> s]
List(l) == [t |-> "List", l |-> l]
NoTree == [t |-> "None"]

(* Error, lib.rs:26-30, and the Result of a call *)
Ok(v) == [kind |-> "Ok", tree |-> v, from |-> 0]
(* Mutant: a read failure mapped to the wrong variant. *)
NotWorking == "NotWorking"
BufferError == "Buffer"
Err(k) == [kind |-> k, tree |-> NoTree, from |-> 0]
SomeDataUnused(p) == [kind |-> "SomeDataUnused", tree |-> NoTree, from |-> p]
Pending == [kind |-> "none", tree |-> NoTree, from |-> 0]
Panicked == [kind |-> "Panic", tree |-> NoTree, from |-> 0]

----------------------------------------------------------------------------
(* The byte source: a view of `data` cut at `lim`. *)
CanRead(lim, pos, n) == pos + n <= lim
Slice(pos, n) == SubSeq(data, pos + 1, pos + n)
CanLimit(lim, newlen) == newlen <= lim

(* Mutant: the children are decoded against the caller's source, not the  *)
(* limited view.                                                           *)
CurLimitWhole(stk) == Len(data)

(* The view the running call reads: limited_data of the innermost list,   *)
(* or the caller's source.                                                 *)
CurLimit(stk) == IF stk = <<>> THEN Len(data) ELSE stk[Len(stk)].border

----------------------------------------------------------------------------
(* Mutant: the cursor is moved one byte too far. *)
AdvanceOff(pos, n) == pos + n + 1

(* `*position += n`, lib.rs:63, 72, 81, 91, 115 *)
Advance(pos, n) == pos + n

(* Mutants: the short form decoded with the long form's +1, and the long  *)
(* form's count of length bytes without it.                               *)
ShortLengthAsLong(a, base) == a + 1 - base
LengthInfoLengthShort(a, base) == a - base

(* Length arithmetic of the arms *)
ShortLength(a, base) == a - base
LengthInfoLength(a, base) == a + 1 - base

(* Mutant: the slice copied left-justified into the eight bytes. *)
LengthBytesLeft(slice) ==
    [i \in 1..8 |-> IF i <= Len(slice) THEN slice[i] ELSE 0]

(* [0; 8] with the slice copied right-justified *)
LengthBytes(slice) ==
    [i \in 1..8 |-> IF i <= 8 - Len(slice) THEN 0 ELSE slice[i - (8 - Len(slice))]]

Low3(w) == w[6] * 65536 + w[7] * 256 + w[8]

(* u64::from_be_bytes(bytes) as usize *)
FromBeBytes(w) == IF \E i \in 1..5 : w[i] # 0 THEN Huge ELSE Low3(w)

(* *position + list_length on the 64-bit word: whether it overflows, and   *)
(* the wrapped sum.  pos < 2^24.                                           *)
Overflows(pos, w) == (\A i \in 1..5 : w[i] = 255) /\ Low3(w) + pos >= Huge
WrappedSum(pos, w) ==
    IF Overflows(pos, w) THEN Low3(w) + pos - Huge
    ELSE IF \E i \in 1..5 : w[i] # 0 THEN Huge
    ELSE Low3(w) + pos

----------------------------------------------------------------------------
(* A conformant encoder of the scheme of the dispatch table: the inverse   *)
(* of the table with minimal headers.  It only builds sources.             *)
MinimalBE(n) == IF n < 256 THEN <<n>> ELSE <<n \div 256, n % 256>>

EncHeader(short, long, n) ==
    IF n < long - short THEN <<short + n>>
    ELSE <<long + Len(MinimalBE(n)) - 1>> \o MinimalBE(n)

RECURSIVE Encode(_)
RECURSIVE EncodeAll(_)
Encode(v) ==
    CASE v.t = "Byte" -> <<v.b>>
      [] v.t = "String" -> EncHeader(BORDER_A, BORDER_B, Len(v.s)) \o v.s
      [] v.t = "List" ->
            EncHeader(BORDER_C, BORDER_D, Len(EncodeAll(v.l))) \o EncodeAll(v.l)
EncodeAll(vs) == IF vs = <<>> THEN <<>> ELSE Encode(Head(vs)) \o EncodeAll(Tail(vs))

(* The same list with its declared content length one byte short *)
OneShort(bytes) == <<bytes[1] - 1>> \o Tail(bytes)

----------------------------------------------------------------------------
(* The sources of the model *)
Rep(b, n) == [i \in 1..n |-> b]
SeqsUpTo(S, n) == UNION {[1..k -> S] : k \in 0..n}

Alphabet == {0, 1, 2, 128, 129, 130, 184, 185, 192, 193, 194, 248}
RawSources == SeqsUpTo(Alphabet, MaxLen)

(* Sources beyond the enumeration: class boundaries, non-minimal and       *)
(* oversized long-form lengths, and lengths near the top of the word.      *)
ExtraSources ==
    { <<127>>, <<183>> \o Rep(9, 55), <<183>> \o Rep(9, 54),
      <<184, 56>> \o Rep(9, 56), <<184, 56>> \o Rep(9, 55),
      <<185, 0, 1, 5>>, <<185, 1, 0>> \o Rep(3, 256), <<186, 0, 0, 2, 7, 7>>,
      <<191>> \o Rep(0, 7) \o <<1, 9>>, <<191>> \o Rep(255, 8),
      <<191>> \o Rep(255, 8) \o <<1>>, <<187, 255, 255, 255, 255>>,
      <<247>> \o Rep(0, 55), <<247>> \o Rep(0, 54),
      <<248, 56>> \o Rep(0, 56), <<249, 0, 1, 0>>, <<249, 0, 3, 129, 5, 0>>,
      <<251, 255, 255, 255, 255, 0>>, <<255>> \o Rep(0, 7) \o <<2, 1, 2>>,
      <<255>> \o Rep(255, 8), <<255>> \o Rep(255, 8) \o <<0>>,
      <<255>> \o Rep(255, 7) \o <<247>>, <<255>> \o Rep(255, 7) \o <<246>>,
      <<255>> \o Rep(255, 7) \o <<246, 0>>,
      <<202, 255>> \o Rep(255, 8) \o <<0>>, <<203, 255>> \o Rep(255, 8) \o <<0, 0>>,
      <<0, 255>> \o Rep(255, 7) \o <<250>> }

Leaves ==
    { Byte(0), Byte(127), String(<<>>), String(<<5>>), String(<<200>>),
      String(Rep(193, 55)), String(Rep(193, 56)), String(Rep(7, 256)) }
Flat == {List(l) : l \in SeqsUpTo(Leaves, MaxKids)}
Inner == { Byte(127), List(<<>>), List(<<Byte(0)>>), List(<<String(Rep(193, 56))>>),
           List(<<String(<<5>>), Byte(1)>>) }
Nested == {List(l) : l \in SeqsUpTo(Inner, MaxKids)}
Trees == Leaves \cup Flat \cup Nested

Vals == {Byte(0), String(<<>>), String(Rep(193, 56)), List(<<Byte(0), String(<<5>>)>>)}
ValSeqs == SeqsUpTo(Vals, MaxVals) \ {<<>>}

ShortLists == {v \in Flat \cup Nested : v.l # <<>> /\ Len(EncodeAll(v.l)) < 56}

Raw == [kind |-> "raw", trees |-> <<>>]

Frame(b, s, h) == [border |-> b, content |-> <<>>, start |-> s, hdr |-> h, adv |-> 0]
NoLast == [tree |-> NoTree, from |-> 0, to |-> 0, n |-> 0, hdr |-> 0, adv |-> 0, border |-> 0]
NoFlags == [overclaim |-> FALSE, overread |-> FALSE, wrapped |-> FALSE, depth |-> 0]

Init ==
    /\ \/ /\ data \in RawSources \cup ExtraSources
          /\ origin = Raw
          /\ start \in 0..Len(data)
       \/ \E vs \in {<<v>> : v \in Trees} \cup ValSeqs :
             /\ data = EncodeAll(vs)
             /\ origin = [kind |-> "enc", trees |-> vs]
             /\ start = 0
       \/ \E v \in ShortLists :
             /\ data = OneShort(Encode(v))
             /\ origin = [kind |-> "short1", trees |-> <<v>>]
             /\ start = 0
    /\ position = start
    /\ stack = <<>>
    /\ pc = "entry"
    /\ res = Pending
    /\ whole = Pending
    /\ calls = 1
    /\ last = NoLast
    /\ flags = NoFlags

----------------------------------------------------------------------------
(* How a (sub)call ends.  stk is the stack of the callers of the call.     *)

(* Ok(v): the caller is a list's loop (list_content.push) or the outermost *)
(* caller.  s is where v's encoding began, n its count of length bytes.    *)
Return(stk, v, newpos, s, n, h, adv, b) ==
    /\ position' = newpos
    /\ last' = [tree |-> v, from |-> s, to |-> newpos, n |-> n, hdr |-> h,
                adv |-> adv, border |-> b]
    /\ IF stk = <<>>
       THEN /\ stack' = <<>>
            /\ pc' = "returned"
            /\ res' = Ok(v)
       ELSE /\ stack' = [stk EXCEPT ![Len(stk)] =
                            [@ EXCEPT !.content = Append(@, v),
                                      !.adv = @ + (newpos - s)]]
            /\ pc' = "loop"
            /\ res' = res

(* Err(e): `?` hands it up through every list frame to the outermost call. *)
Fail(e, newpos) ==
    /\ position' = newpos
    /\ last' = last
    /\ stack' = <<>>
    /\ pc' = "returned"
    /\ res' = e

(* Ghost bookkeeping of one step: a declared extent past the view, and a   *)
(* successful read whose end lies past the border of an enclosing list.    *)
PastBorder(stk, end) == \E i \in DOMAIN stk : end > stk[i].border
Note(claim, readEnd, wrap) ==
    flags' = [flags EXCEPT !.overclaim = @ \/ claim,
                           !.overread = @ \/ PastBorder(stack, readEnd),
                           !.wrapped = @ \/ wrap,
                           !.depth = Len(stack)]

Tag == data[position + 1]
HasTag == pc = "entry" /\ CanRead(CurLimit(stack), position, 1)

----------------------------------------------------------------------------
(* decode_blob_portion_at_position, one action per outcome of the match    *)

(* read_byte fails, lib.rs:60-62 *)
ReadByteFails ==
    /\ pc = "entry"
    /\ ~CanRead(CurLimit(stack), position, 1)
    /\ Fail(Err(BufferError), position)
    /\ Note(FALSE, 0, FALSE)
    /\ UNCHANGED <<data, origin, start, whole, calls>>

(* lib.rs:66 *)
ArmByte ==
    /\ HasTag
    /\ Tag < BORDER_A
    /\ Return(stack, Byte(Tag), Advance(position, 1), position, 0, 1, 0, 0)
    /\ Note(FALSE, position + 1, FALSE)
    /\ UNCHANGED <<data, origin, start, whole, calls>>

(* lib.rs:67-74 *)
ArmShortString ==
    /\ HasTag
    /\ BORDER_A <= Tag /\ Tag < BORDER_B
    /\ LET string_length == ShortLength(Tag, BORDER_A)
           p1 == Advance(position, 1)
       IN IF CanRead(CurLimit(stack), p1, string_length)
          THEN /\ Return(stack, String(Slice(p1, string_length)), Advance(p1, string_length),
                         position, 0, 1, 0, 0)
               /\ Note(FALSE, p1 + string_length, FALSE)
          ELSE /\ Fail(Err(BufferError), p1)
               /\ Note(TRUE, p1, FALSE)
    /\ UNCHANGED <<data, origin, start, whole, calls>>

(* lib.rs:75-93 *)
ArmLongString ==
    /\ HasTag
    /\ BORDER_B <= Tag /\ Tag < BORDER_C
    /\ LET string_length_info_length == LengthInfoLength(Tag, BORDER_B)
           p1 == Advance(position, 1)
           p2 == Advance(p1, string_length_info_length)
           string_length == FromBeBytes(LengthBytes(Slice(p1, string_length_info_length)))
       IN IF ~CanRead(CurLimit(stack), p1, string_length_info_length)
          THEN /\ Fail(Err(BufferError), p1)
               /\ Note(FALSE, p1, FALSE)
          ELSE IF CanRead(CurLimit(stack), p2, string_length)
          THEN /\ Return(stack, String(Slice(p2, string_length)), Advance(p2, string_length),
                         position, string_length_info_length,
                         1 + string_length_info_length, 0, 0)
               /\ Note(FALSE, p2 + string_length, FALSE)
          ELSE /\ Fail(Err(BufferError), p2)
               /\ Note(TRUE, p2, FALSE)
    /\ UNCHANGED <<data, origin, start, whole, calls>>

(* lib.rs:94-100: the list's frame is entered, or limit_length fails *)
ArmShortList ==
    /\ HasTag
    /\ BORDER_C <= Tag /\ Tag < BORDER_D
    /\ LET list_length == ShortLength(Tag, BORDER_C)
           p1 == Advance(position, 1)
           border_position == p1 + list_length
       IN IF CanLimit(CurLimit(stack), border_position)
          THEN /\ position' = p1
               /\ stack' = Append(stack, Frame(border_position, position, 1))
               /\ pc' = "loop"
               /\ UNCHANGED <<res, last>>
               /\ Note(FALSE, p1, FALSE)
          ELSE /\ Fail(Err(BufferError), p1)
               /\ Note(TRUE, p1, FALSE)
    /\ UNCHANGED <<data, origin, start, whole, calls>>

(* lib.rs:109-127.  When `*position + list_length` overflows the word, a   *)
(* build without overflow checks goes on with the wrapped sum.             *)
ArmLongList ==
    /\ HasTag
    /\ BORDER_D <= Tag
    /\ LET list_length_info_length == LengthInfoLength(Tag, BORDER_D)
           p1 == Advance(position, 1)
           p2 == Advance(p1, list_length_info_length)
           list_length_bytes == LengthBytes(Slice(p1, list_length_info_length))
           border_position == WrappedSum(p2, list_length_bytes)
           wraps == Overflows(p2, list_length_bytes)
       IN IF ~CanRead(CurLimit(stack), p1, list_length_info_length)
          THEN /\ Fail(Err(BufferError), p1)
               /\ Note(FALSE, p1, FALSE)
          ELSE IF CanLimit(CurLimit(stack), border_position)
          THEN /\ position' = p2
               /\ stack' = Append(stack, Frame(border_position, position,
                                               1 + list_length_info_length))
               /\ pc' = "loop"
               /\ UNCHANGED <<res, last>>
               /\ Note(wraps, p2, wraps)
          ELSE /\ Fail(Err(BufferError), p2)
               /\ Note(TRUE, p2, wraps)
    /\ UNCHANGED <<data, origin, start, whole, calls>>

(* lib.rs:123 in a build with overflow checks: the addition panics and the *)
(* call never returns.                                                     *)
LongListOverflowPanics ==
    /\ HasTag
    /\ BORDER_D <= Tag
    /\ LET list_length_info_length == LengthInfoLength(Tag, BORDER_D)
           p1 == Advance(position, 1)
           p2 == Advance(p1, list_length_info_length)
       IN /\ CanRead(CurLimit(stack), p1, list_length_info_length)
          /\ Overflows(p2, LengthBytes(Slice(p1, list_length_info_length)))
          /\ Fail(Panicked, p2)
          /\ Note(TRUE, p2, FALSE)
    /\ UNCHANGED <<data, origin, start, whole, calls>>

(* `while *position < border_position`, lib.rs:101-107 and 128-134 *)
LoopContinues(pos, border) == pos < border

LoopCallsChild ==
    /\ pc = "loop"
    /\ LoopContinues(position, stack[Len(stack)].border)
    /\ pc' = "entry"
    /\ UNCHANGED <<data, origin, start, position, stack, res, whole, calls, last, flags>>

LoopEnds ==
    /\ pc = "loop"
    /\ ~LoopContinues(position, stack[Len(stack)].border)
    /\ LET top == stack[Len(stack)]
       IN Return(SubSeq(stack, 1, Len(stack) - 1), List(top.content), position,
                 top.start, top.hdr - 1, top.hdr, top.adv, top.border)
    /\ UNCHANGED <<data, origin, start, whole, calls, flags>>

----------------------------------------------------------------------------
(* decode_whole_blob, lib.rs:42-48, after its call at position 0 returned  *)
(* Mutant: the trailing-data test left out. *)
WholeResultUnchecked(r, pos, total_len) == r

WholeResult(r, pos, total_len) ==
    IF r.kind # "Ok" THEN r
    ELSE IF pos < total_len THEN SomeDataUnused(pos)
    ELSE r

WholeBlobReturns ==
    /\ pc = "returned"
    /\ calls = 1 /\ start = 0
    /\ whole' = WholeResult(res, position, Len(data))
    /\ pc' = "whole"
    /\ UNCHANGED <<data, origin, start, position, stack, res, calls, last, flags>>

(* A caller of decode_blob_portion_at_position decoding the next value of  *)
(* the same source with the same cursor.                                   *)
CallAgain ==
    /\ pc = "returned"
    /\ res.kind = "Ok"
    /\ position < Len(data)
    /\ pc' = "entry"
    /\ start' = position
    /\ calls' = calls + 1
    /\ res' = Pending
    /\ last' = NoLast
    /\ flags' = NoFlags
    /\ UNCHANGED <<data, origin, position, stack, whole>>

Decode ==
    \/ ReadByteFails
    \/ ArmByte
    \/ ArmShortString
    \/ ArmLongString
    \/ ArmShortList
    \/ ArmLongList
    \/ LongListOverflowPanics
    \/ LoopCallsChild
    \/ LoopEnds

Next == Decode \/ WholeBlobReturns \/ CallAgain

Spec == Init /\ [][Next]_vars

(* The call runs on its caller's thread without suspending: a step that is *)
(* possible is taken.                                                      *)
FairSpec == Spec /\ WF_vars(Decode)

----------------------------------------------------------------------------
(* Helpers of the properties: what the source says, read off `data`        *)
(* independently of the decoder's own arithmetic.                          *)
Cap == 2^20
Min(a, b) == IF a < b THEN a ELSE b
RECURSIVE BEVal(_)
BEVal(bytes) ==
    IF bytes = <<>> THEN 0
    ELSE Min(Cap, BEVal(SubSeq(bytes, 1, Len(bytes) - 1)) * 256 + bytes[Len(bytes)])

Finished == pc \in {"returned", "whole"}
TagAt(p) == data[p + 1]
HeaderSize(tag) ==
    IF tag < BORDER_A THEN 1
    ELSE IF tag < BORDER_B THEN 1
    ELSE IF tag < BORDER_C THEN 1 + (tag - BORDER_B + 1)
    ELSE IF tag < BORDER_D THEN 1
    ELSE 1 + (tag - BORDER_D + 1)

----------------------------------------------------------------------------
(* C1: decode_whole_blob returns Ok(tree) only with the cursor on the      *)
(* source's total length; when the top-level value decodes and bytes       *)
(* remain, it returns SomeDataUnused { from: cursor after the value } and  *)
(* no tree; 80 80 gives from = 1.                                          *)
C1_WholeBlobConsumesAll ==
    pc = "whole" =>
        /\ whole.kind = "Ok" => position = Len(data) /\ whole.tree = res.tree
        /\ res.kind = "Ok" /\ last.to < Len(data) =>
               whole = SomeDataUnused(last.to)
        /\ data = <<128, 128>> => whole = SomeDataUnused(1)

C1_Witness ==
    pc = "whole" /\ data = <<128, 128>> /\ res = Ok(String(<<>>)) /\ whole.from = 1

(* C2: decode_whole_blob of the encoding of a tree returns that tree. *)
C2_RoundTrip ==
    pc = "whole" /\ origin.kind = "enc" /\ Len(origin.trees) = 1 =>
        whole = Ok(origin.trees[1])

C2_Witness ==
    /\ pc = "whole"
    /\ origin.kind = "enc"
    /\ origin.trees = <<List(<<List(<<String(Rep(193, 56))>>), Byte(127)>>)>>
    /\ whole.kind = "Ok"

(* C3: a string or list whose declared content length reaches past the     *)
(* end of the view it is decoded against makes the call return a Buffer    *)
(* error, also when cursor + length exceeds the machine word.              *)
C3_OverlongLengthIsBufferError ==
    Finished /\ flags.overclaim /\ res.kind # "Panic" =>
        /\ res.kind = "Buffer"
        /\ pc = "whole" => whole.kind = "Buffer"

(* The same without the lengths that wrap the word: these do fail. *)
C3_HoldsWithoutWrap ==
    Finished /\ flags.overclaim /\ ~flags.wrapped /\ res.kind # "Panic" =>
        res.kind = "Buffer"

(* A source that is one short list, and what its decoding is to give. *)
IsShortListSource ==
    /\ origin.kind = "enc" /\ Len(origin.trees) = 1
    /\ origin.trees[1].t = "List"
    /\ Len(EncodeAll(origin.trees[1].l)) < BORDER_D - BORDER_C
ExactShortList ==
    pc = "returned" /\ IsShortListSource =>
        /\ res = Ok(origin.trees[1])
        /\ position = 1 + (data[1] - BORDER_C)
        /\ last.border = position

(* C4: a short list whose declared content length is the encoded size of   *)
(* its children decodes with the cursor on border = 1 + declared length;   *)
(* declared one byte short, decoding fails with a Buffer error.            *)
C4_OneShortIsBufferError ==
    /\ ExactShortList
    /\ Finished /\ origin.kind = "short1" /\ calls = 1 => res.kind = "Buffer"

LastChild(v) == v.l[Len(v.l)]

(* C4 as amended: one byte short fails with a Buffer error when the last   *)
(* child's encoding is longer than one byte; when it is one byte, the      *)
(* single-value decode returns the list without that child, the cursor on  *)
(* border, and decode_whole_blob reports SomeDataUnused from border.       *)
C4_OneShortAmended ==
    /\ ExactShortList
    /\ Finished /\ origin.kind = "short1" /\ calls = 1 =>
         LET v == origin.trees[1]
             border == 1 + (data[1] - BORDER_C)
         IN IF Len(Encode(LastChild(v))) > 1
            THEN /\ res.kind = "Buffer"
                 /\ pc = "whole" => whole.kind = "Buffer"
            ELSE /\ res = Ok(List(SubSeq(v.l, 1, Len(v.l) - 1)))
                 /\ position = border /\ border = Len(data) - 1
                 /\ pc = "whole" => whole = SomeDataUnused(border)

C4_Witness ==
    /\ pc = "whole" /\ origin.kind = "short1"
    /\ origin.trees = <<List(<<String(<<5>>), Byte(127)>>)>>
    /\ res = Ok(List(<<String(<<5>>)>>))
    /\ whole.kind = "SomeDataUnused"

(* C5: a long string's length is the big-endian value of its n = a - B8 + 1 *)
(* length bytes, the result is String of that many following bytes, the    *)
(* cursor advances by 1 + n + length; B9 00 01 xx and B8 00 are accepted,  *)
(* and 56 bytes under B8 38 are recovered.                                 *)
C5_LongString ==
    /\ pc = "returned" /\ start < Len(data)
         /\ BORDER_B <= TagAt(start) /\ TagAt(start) < BORDER_C =>
         LET n == TagAt(start) - BORDER_B + 1
             have == start + 1 + n <= Len(data)
             len == BEVal(SubSeq(data, start + 2, start + 1 + n))
         IN IF have /\ start + 1 + n + len <= Len(data)
            THEN /\ res = Ok(String(SubSeq(data, start + 2 + n, start + 1 + n + len)))
                 /\ position = start + 1 + n + len
            ELSE res.kind = "Buffer"
    /\ pc = "whole" /\ data = <<185, 0, 1, 5>> => whole = Ok(String(<<5>>))
    /\ pc = "whole" /\ data = <<184, 0>> => whole = Ok(String(<<>>))
    /\ pc = "whole" /\ data = <<184, 56>> \o Rep(9, 56) => whole = Ok(String(Rep(9, 56)))

C5_Witness ==
    /\ pc = "returned" /\ start = 0 /\ data = <<185, 0, 1, 5>>
    /\ res = Ok(String(<<5>>)) /\ position = 4

(* C6: successive single-value decodes of a concatenation of encodings     *)
(* return the values in order, each leaving the cursor at the start of     *)
(* the next encoding and the last at the total length.                     *)
C6_BackToBack ==
    origin.kind = "enc" =>
        /\ calls <= Len(origin.trees)
        /\ stack = <<>> /\ pc = "entry" =>
               position = Len(EncodeAll(SubSeq(origin.trees, 1, calls - 1)))
        /\ pc = "returned" =>
               /\ res = Ok(origin.trees[calls])
               /\ position = Len(EncodeAll(SubSeq(origin.trees, 1, calls)))
               /\ calls = Len(origin.trees) => position = Len(data)

C6_Witness ==
    /\ pc = "returned" /\ origin.kind = "enc"
    /\ Len(origin.trees) = 3 /\ calls = 3
    /\ origin.trees[1] # origin.trees[2]
    /\ res = Ok(origin.trees[3]) /\ position = Len(data)

(* C7: a failure of decode_blob_portion_at_position is a Buffer error at   *)
(* every depth; a failure of decode_whole_blob is a Buffer error or        *)
(* SomeDataUnused; no other error kind is returned.                        *)
C7_ErrorKinds ==
    /\ Finished /\ res.kind \notin {"Ok", "Panic"} => res.kind = "Buffer"
    /\ pc = "whole" /\ whole.kind \notin {"Ok", "Panic"} =>
           whole.kind \in {"Buffer", "SomeDataUnused"}
    /\ pc \in {"entry", "loop"} => res.kind = "none"

C7_Witness ==
    pc = "returned" /\ res.kind = "Buffer" /\ flags.depth = 2 /\ position > start + 2

(* The size of the encoding of the last returned value, by its tag. *)
SizeOfLast ==
    LET tag == TagAt(last.from)
    IN CASE last.tree.t = "Byte" -> 1
         [] last.tree.t = "String" -> HeaderSize(tag) + Len(last.tree.s)
         [] last.tree.t = "List" -> HeaderSize(tag) + last.adv
AdvancedByEncoding ==
    /\ last.tree # NoTree =>
         /\ last.to - last.from = SizeOfLast
         /\ last.tree.t = "Byte" => data[last.from + 1] = last.tree.b
    /\ pc = "returned" /\ res.kind = "Ok" =>
         last.tree = res.tree /\ last.from = start /\ position = last.to

(* C8: the cursor never decreases, and a value returned by a (sub)call     *)
(* moved it by the size of the value's encoding: 1 for Byte, 1 + len for   *)
(* a short string, 1 + n + len for a long one, header plus the children's  *)
(* advances for a list.                                                    *)
C8_Cursor == []AdvancedByEncoding /\ [][position' >= position]_vars

C8_Witness ==
    /\ pc = "returned" /\ res.kind = "Ok" /\ res.tree.t = "List"
    /\ TagAt(start) = 249 /\ Len(res.tree.l) = 2 /\ position = start + 6

(* The parts of the bounded recursion. *)
CursorWithinBorders == \A i \in DOMAIN stack : position <= stack[i].border
ListEndsOnBorder == last.tree.t = "List" => last.to = last.border

(* C9: while the children of a list with border b are decoded the cursor   *)
(* never exceeds b and no byte at an offset >= b is read; a list that      *)
(* decodes ends with the cursor on b.                                      *)
C9_BoundedRecursion ==
    /\ CursorWithinBorders
    /\ ~flags.overread
    /\ ListEndsOnBorder

(* The same for calls in which no border wrapped the word, and the reads   *)
(* in every call.                                                          *)
C9_HoldsWithoutWrap ==
    /\ ~flags.overread
    /\ ~flags.wrapped => CursorWithinBorders /\ ListEndsOnBorder

(* C10: every call returns Ok or Err; each pass of a list's loop fails or  *)
(* moves the cursor on; the recursion is no deeper than the source is      *)
(* long.                                                                   *)
C10_EveryCallReturns ==
    /\ Finished => res.kind \in {"Ok", "Buffer"}
    /\ Len(stack) <= Len(data)

(* What of C10 holds: every call comes to an end (returning, or panicking  *)
(* on the overflowing border), and a child call moves the cursor or fails. *)
C10_CallsEnd == (pc \in {"entry", "loop"}) ~> Finished
C10_LoopProgress ==
    [][pc = "entry" => position' > position \/ res'.kind \in {"Buffer", "Panic"}]_vars

====
